---- MODULE Spec2Model ----
(***************************************************************************)
(* Report consolidation and retention engine of arxiv_daily_vlm            *)
(* (src/src/html_generator.py): generate_multi_day_html,                   *)
(* cleanup_old_html_files and generate_multi_day_html_with_cleanup.        *)
(*                                                                         *)
(* File names are strings, handled character by character the way the      *)
(* Python code handles them (endswith, in, split, replace, fromisoformat,  *)
(* strftime, sort).  Calendar dates are <<year, month, day>> triples with  *)
(* the proleptic Gregorian ordinal arithmetic of datetime.date.            *)
(***************************************************************************)
EXTENDS Integers, Sequences, FiniteSets, TLC

VARIABLES json_dir, html_dir, reports, reports_empty, today, days, log

vars == <<json_dir, html_dir, reports, reports_empty, today, days, log>>

(***************************************************************************)
(* Strings                                                                 *)
(***************************************************************************)

\* The characters that occur in the file names of the model, in ASCII order.
Alphabet == "-.0123456789_abcdefghijklmnopqrstuvwxyz"

Digits == "0123456789"

CharAt(s, i) == SubSeq(s, i, i)

\* position of each character in Alphabet
OrdTable ==
    [c \in {CharAt(Alphabet, i) : i \in 1..Len(Alphabet)} |->
        CHOOSE i \in 1..Len(Alphabet) : CharAt(Alphabet, i) = c]

\* ord(c), up to an order-preserving renumbering
Ord(c) == OrdTable[c]

IsDigit(c) == c \in {"0", "1", "2", "3", "4", "5", "6", "7", "8", "9"}

DigitVal(c) == Ord(c) - Ord("0")

AllDigits(s) == \A i \in 1..Len(s) : IsDigit(CharAt(s, i))

\* int(s) for a string of decimal digits
RECURSIVE ParseInt(_)
ParseInt(s) ==
    IF Len(s) = 0 THEN 0
    ELSE 10 * ParseInt(SubSeq(s, 1, Len(s) - 1)) + DigitVal(CharAt(s, Len(s)))

\* '%0<w>d' % n
RECURSIVE Pad(_, _)
Pad(n, w) ==
    IF w = 0 THEN ""
    ELSE Pad(n \div 10, w - 1) \o CharAt(Digits, (n % 10) + 1)

\* s.endswith(suf)
EndsWith(s, suf) ==
    /\ Len(s) >= Len(suf)
    /\ SubSeq(s, Len(s) - Len(suf) + 1, Len(s)) = suf

\* s.find(sub, from): the least index >= from where sub occurs, 0 when none
Find(s, sub, from) ==
    LET hits == {i \in from..(Len(s) - Len(sub) + 1) :
                    SubSeq(s, i, i + Len(sub) - 1) = sub}
    IN  IF hits = {} THEN 0
        ELSE CHOOSE i \in hits : \A j \in hits : i <= j

\* sub in s
Contains(s, sub) == Find(s, sub, 1) # 0

\* s.split(sep): left to right, non-overlapping, sep non-empty
RECURSIVE Split(_, _)
Split(s, sep) ==
    LET i == Find(s, sep, 1)
    IN  IF i = 0 THEN <<s>>
        ELSE <<SubSeq(s, 1, i - 1)>> \o Split(SubSeq(s, i + Len(sep), Len(s)), sep)

\* s.replace(old, new): every non-overlapping occurrence, left to right
RECURSIVE Replace(_, _, _)
Replace(s, old, new) ==
    LET i == Find(s, old, 1)
    IN  IF i = 0 THEN s
        ELSE SubSeq(s, 1, i - 1) \o new
                \o Replace(SubSeq(s, i + Len(old), Len(s)), old, new)

\* s < t in Python's string order (by code point, a proper prefix first)
RECURSIVE StrLt(_, _)
StrLt(s, t) ==
    IF Len(t) = 0 THEN FALSE
    ELSE IF Len(s) = 0 THEN TRUE
    ELSE IF Head(s) = Head(t) THEN StrLt(Tail(s), Tail(t))
    ELSE Ord(Head(s)) < Ord(Head(t))

(***************************************************************************)
(* datetime.date                                                           *)
(***************************************************************************)

\* The value standing for "fromisoformat raised ValueError".
NoDate == <<0, 0, 0>>

IsLeap(y) == y % 4 = 0 /\ (y % 100 # 0 \/ y % 400 = 0)

DaysInMonth(y, m) ==
    IF m = 2 THEN (IF IsLeap(y) THEN 29 ELSE 28)
    ELSE IF m \in {4, 6, 9, 11} THEN 30 ELSE 31

RECURSIVE DaysBeforeMonth(_, _)
DaysBeforeMonth(y, m) ==
    IF m = 1 THEN 0 ELSE DaysBeforeMonth(y, m - 1) + DaysInMonth(y, m - 1)

DaysBeforeYear(y) ==
    (y - 1) * 365 + (y - 1) \div 4 - (y - 1) \div 100 + (y - 1) \div 400

IsDate(y, m, d) ==
    /\ y \in 1..9999
    /\ m \in 1..12
    /\ d \in 1..DaysInMonth(y, m)

\* date.toordinal()
ToOrdinal(dt) == DaysBeforeYear(dt[1]) + DaysBeforeMonth(dt[1], dt[2]) + dt[3]

DaysInYear(y) == IF IsLeap(y) THEN 366 ELSE 365

RECURSIVE MonthOf(_, _, _)
MonthOf(y, m, n) ==
    IF n <= DaysInMonth(y, m) THEN <<y, m, n>>
    ELSE MonthOf(y, m + 1, n - DaysInMonth(y, m))

RECURSIVE YearOf(_, _)
YearOf(y, n) ==
    IF n < 1 THEN YearOf(y - 1, n + DaysInYear(y - 1))
    ELSE IF n > DaysInYear(y) THEN YearOf(y + 1, n - DaysInYear(y))
    ELSE MonthOf(y, 1, n)

\* date.fromordinal(n), searched from the year 2024
FromOrdinal(n) == YearOf(2024, n - DaysBeforeYear(2024))

\* dt - timedelta(days=k)
MinusDays(dt, k) == FromOrdinal(ToOrdinal(dt) - k)

\* a < b on dates: year, then month, then day
DateLt(a, b) ==
    \/ a[1] < b[1]
    \/ a[1] = b[1] /\ a[2] < b[2]
    \/ a[1] = b[1] /\ a[2] = b[2] /\ a[3] < b[3]

DateGe(a, b) == ~DateLt(a, b)

\* date(y, m, d), or ValueError (NoDate) when there is no such day
MakeDate(y, m, d) == IF IsDate(y, m, d) THEN <<y, m, d>> ELSE NoDate

\* date.fromisoformat(s) on 'YYYY-MM-DD'; any other string of the model's file
\* names raises ValueError (NoDate)
FromIsoFormat(s) ==
    IF /\ Len(s) = 10
       /\ CharAt(s, 5) = "-"
       /\ CharAt(s, 8) = "-"
       /\ AllDigits(SubSeq(s, 1, 4) \o SubSeq(s, 6, 7) \o SubSeq(s, 9, 10))
    THEN MakeDate(ParseInt(SubSeq(s, 1, 4)), ParseInt(SubSeq(s, 6, 7)),
                  ParseInt(SubSeq(s, 9, 10)))
    ELSE NoDate

\* dt.strftime('%Y_%m_%d')
StrfYmd(dt) == Pad(dt[1], 4) \o "_" \o Pad(dt[2], 2) \o "_" \o Pad(dt[3], 2)

\* dt.isoformat()
IsoFormat(dt) == Pad(dt[1], 4) \o "-" \o Pad(dt[2], 2) \o "-" \o Pad(dt[3], 2)

(***************************************************************************)
(* Helpers on sequences and sets                                           *)
(***************************************************************************)

Min2(a, b) == IF a <= b THEN a ELSE b

Max2(a, b) == IF a >= b THEN a ELSE b

\* Python's seq[:k], for any integer k
SliceTo(seq, k) ==
    IF k >= 0 THEN SubSeq(seq, 1, Min2(k, Len(seq)))
    ELSE SubSeq(seq, 1, Max2(Len(seq) + k, 0))

\* seq[-1]
Last(seq) == seq[Len(seq)]

SeqToSet(seq) == {seq[i] : i \in 1..Len(seq)}

\* (date, filename) tuples in Python's tuple order
EntryLt(a, b) ==
    \/ DateLt(a[1], b[1])
    \/ a[1] = b[1] /\ StrLt(a[2], b[2])

\* list.sort(reverse=True) on a list of distinct (date, filename) tuples
RECURSIVE SortEntriesDesc(_)
SortEntriesDesc(S) ==
    IF S = {} THEN <<>>
    ELSE LET x    == CHOOSE e \in S : TRUE
             rest == SortEntriesDesc(S \ {x})
             pos  == Cardinality({i \in 1..Len(rest) : EntryLt(x, rest[i])})
         IN  SubSeq(rest, 1, pos) \o <<x>> \o SubSeq(rest, pos + 1, Len(rest))

\* list.sort(reverse=True) on a list of distinct strings
RECURSIVE SortNamesDesc(_)
SortNamesDesc(S) ==
    IF S = {} THEN <<>>
    ELSE LET x    == CHOOSE e \in S : TRUE
             rest == SortNamesDesc(S \ {x})
             pos  == Cardinality({i \in 1..Len(rest) : StrLt(x, rest[i])})
         IN  SubSeq(rest, 1, pos) \o <<x>> \o SubSeq(rest, pos + 1, Len(rest))

\* min() and max() of a non-empty list of dates
MinDate(seq) ==
    CHOOSE d \in SeqToSet(seq) : \A e \in SeqToSet(seq) : ~DateLt(e, d)

MaxDate(seq) ==
    CHOOSE d \in SeqToSet(seq) : \A e \in SeqToSet(seq) : ~DateLt(d, e)

\* variant: the default is not applied, a paper without the field sorts last
ScoreKeyRaw(paper) == paper.score

\* x.get('overall_priority_score', 0); a paper without the field has score -1 here
ScoreKey(paper) == IF paper.score = -1 THEN 0 ELSE paper.score

\* list.sort(key=..., reverse=True): stable, descending by key
RECURSIVE SortPapers(_)
SortPapers(seq) ==
    IF Len(seq) <= 1 THEN seq
    ELSE LET rest == SortPapers(Tail(seq))
             p    == Head(seq)
             \* p goes before the first element whose key is not larger than p's
             pos  == Cardinality({i \in 1..Len(rest) : ScoreKey(rest[i]) > ScoreKey(p)})
         IN  SubSeq(rest, 1, pos) \o <<p>> \o SubSeq(rest, pos + 1, Len(rest))

(***************************************************************************)
(* The files of the model                                                  *)
(***************************************************************************)

\* Bounds of the model
MaxFiles == 12

MaxRuns == 2

MaxSweeps == 1

MaxOrchFiles == 2

\* I/O failures (a write, a removal) in one call
MaxFaults == 1

\* sweeps of a scheduled job, and the days that pass meanwhile
MaxScheduled == 2

MaxDaysOn == 1

Today0 == <<2024, 2, 15>>

\* the newest source of a store that is not up to date: 2024-01-12
StaleDay == MinusDays(Today0, 34)

SourceName(dt) == IsoFormat(dt) \o ".json"

\* n daily files for the n days ending on the date last
DailyFiles(last, n) == {SourceName(MinusDays(last, i)) : i \in 0..(n - 1)}

\* other files a source directory may hold: a name that is no date, a second
\* file for the newest date, a file that is not .json, a date that does not exist
ExtraFiles(last) ==
    {"notes.json", IsoFormat(last) \o ".v2.json", IsoFormat(last) \o ".txt",
     "2024-02-30.json"}

SingleName(dt) == StrfYmd(dt) \o ".html"

MultiName(first, last) == StrfYmd(first) \o "_to_" \o StrfYmd(last) \o ".html"

\* ten-day digests ending k days before td, as test_cleanup_simple.py names them
TenDays(td, k) == MultiName(MinusDays(td, k + 9), MinusDays(td, k))

\* the names a swept directory is drawn from
SweepNames(td) ==
    {SingleName(MinusDays(td, 50))}
        \cup {TenDays(td, k) : k \in {0, 10, 20, 30, 31}}
        \* test_cleanup.py writes the later date first
        \cup {MultiName(MinusDays(td, 20), MinusDays(td, 29))}
        \cup {"index.html",
              "junk_to_" \o SingleName(MinusDays(td, 40)),
              StrfYmd(MinusDays(td, 40)) \o "_to_junk.html"}

\* the names the directory of a scheduled sweep is drawn from
ScheduledNames(td) ==
    {SingleName(MinusDays(td, 50)), TenDays(td, 30), TenDays(td, 31),
     "junk_to_" \o SingleName(MinusDays(td, 40))}

\* the names the orchestrator's output directory starts with
OrchNames(td) ==
    {SingleName(MinusDays(td, 50)), TenDays(td, 40), "readme.txt"}

(***************************************************************************)
(* generate_multi_day_html                                                 *)
(***************************************************************************)

\* "Limit days to maximum of 10"
DaysCap == 10

\* days = min(days, 10)
LimitDays(n) == Min2(n, DaysCap)

\* filename.split('.')[0] parsed by date.fromisoformat
SourceDate(filename) == FromIsoFormat(Split(filename, ".")[1])

\* SourceDate of the source names of the model, computed once
SourceDateTable ==
    [f \in UNION {DailyFiles(l, MaxFiles + 1) \cup ExtraFiles(l) :
                     l \in {Today0, StaleDay}} |-> SourceDate(f)]

SourceDateOf(f) ==
    IF f \in DOMAIN SourceDateTable THEN SourceDateTable[f] ELSE SourceDate(f)

\* the listdir loop: the (date, filename) of every *.json whose stem is a date
JsonEntries(jd) ==
    {<<SourceDateOf(f), f>> :
        f \in {g \in DOMAIN jd : EndsWith(g, ".json") /\ SourceDateOf(g) # NoDate}}

\* json_files after sort(reverse=True) and json_files[:days]
SelectSources(jd, n) == SliceTo(SortEntriesDesc(JsonEntries(jd)), LimitDays(n))

\* date_range = [file_date for file_date, _ in json_files]
DateRange(json_files) == [i \in 1..Len(json_files) |-> json_files[i][1]]

\* the expected output filename
OutputFilename(date_range) ==
    IF Len(date_range) = 1
    THEN StrfYmd(date_range[1]) \o ".html"
    ELSE StrfYmd(MinDate(date_range)) \o "_to_" \o StrfYmd(MaxDate(date_range))
            \o ".html"

\* json.load succeeds on this file (else JSONDecodeError, caught: the file is skipped)
Loads(jd, filename) == jd[filename].kind = "list"

\* the load loop raises TypeError on this file, which nothing catches: valid JSON
\* that is no list ("object": iterating it fails, or assigning
\* paper['source_date'] to what it yields does), or a list with an element that is
\* no mapping ("items")
Raises(jd, filename) == jd[filename].kind \in {"object", "items"}

\* the position in json_files of the first file the load loop raises on, 0 if none
FirstRaising(jd, json_files) ==
    IF \E i \in 1..Len(json_files) : Raises(jd, json_files[i][2])
    THEN CHOOSE i \in 1..Len(json_files) :
            /\ Raises(jd, json_files[i][2])
            /\ \A j \in 1..(i - 1) : ~Raises(jd, json_files[j][2])
    ELSE 0

\* the papers of one file with source_date added
Annotate(papers, file_date) ==
    [i \in 1..Len(papers) |->
        [id |-> papers[i].id, score |-> papers[i].score,
         source_date |-> IsoFormat(file_date)]]

\* what the load loop adds to all_papers for one (file_date, filename)
LoadOne(jd, e) ==
    IF Loads(jd, e[2]) THEN Annotate(jd[e[2]].papers, e[1]) ELSE <<>>

\* all_papers after the load loop
RECURSIVE LoadAll(_, _)
LoadAll(jd, json_files) ==
    IF json_files = <<>> THEN <<>>
    ELSE LoadOne(jd, Head(json_files)) \o LoadAll(jd, Tail(json_files))

\* the files of json_files that were loaded, in order
LoadedFiles(jd, json_files) ==
    SelectSeq(json_files, LAMBDA e : Loads(jd, e[2]))

\* variant: the output file is never looked for
NeverExists(name, hd) == FALSE

\* os.path.exists(output_filepath)
AlreadyExists(name, hd) == name \in hd

\* What one call did: the files selected, the output name, the files loaded, the
\* papers rendered, how it ended, and the output directory afterwards.
GenResult(json_files, name, loaded, papers, result, hd) ==
    [selected |-> json_files, name |-> name, loaded |-> loaded, papers |-> papers,
     result |-> result, html |-> hd]

\* from the load loop on; write_fails: open(output_filepath, 'w') raises IOError
GenerateLoaded(json_files, name, loaded, all_papers, hd, write_fails) ==
    IF all_papers = <<>>
    THEN GenResult(json_files, name, loaded, <<>>, "no_papers", hd)
    ELSE IF write_fails
    THEN GenResult(json_files, name, loaded, SortPapers(all_papers), "write_failed", hd)
    ELSE GenResult(json_files, name, loaded, SortPapers(all_papers), "written",
                   hd \cup {name})

\* from the check of the output file on; "raised": the exception of the load loop
\* leaves the function, the files before the raising one were loaded
GenerateNamed(json_files, name, jd, hd, write_fails) ==
    IF AlreadyExists(name, hd)
    THEN GenResult(json_files, name, <<>>, <<>>, "exists", hd)
    ELSE IF FirstRaising(jd, json_files) # 0
    THEN GenResult(json_files, name,
                   LoadedFiles(jd, SubSeq(json_files, 1,
                                          FirstRaising(jd, json_files) - 1)),
                   <<>>, "raised", hd)
    ELSE GenerateLoaded(json_files, name, LoadedFiles(jd, json_files),
                        LoadAll(jd, json_files), hd, write_fails)

\* from "if not json_files" on
GenerateSelected(json_files, jd, hd, write_fails) ==
    IF json_files = <<>>
    THEN GenResult(json_files, "", <<>>, <<>>, "no_files", hd)
    ELSE GenerateNamed(json_files, OutputFilename(DateRange(json_files)), jd, hd,
                       write_fails)

\* One call of generate_multi_day_html(json_dir, ..., output_dir, days=n)
GenerateMultiDay(jd, hd, n, write_fails) ==
    GenerateSelected(SelectSources(jd, n), jd, hd, write_fails)

(***************************************************************************)
(* cleanup_old_html_files                                                  *)
(***************************************************************************)

\* filename.replace('.html', '').replace('_', '-') parsed as a date
SingleDayDate(filename) ==
    FromIsoFormat(Replace(Replace(filename, ".html", ""), "_", "-"))

\* filename.split('_to_')[-1].replace('.html', '').replace('_', '-') parsed as a date
EndDate(filename) ==
    FromIsoFormat(Replace(Replace(Last(Split(filename, "_to_")), ".html", ""), "_", "-"))

\* a file appended to the list kind ("single" or "multi") with the date file_date,
\* or skipped because the date did not parse
Dated(kind, file_date) ==
    [kind |-> IF file_date = NoDate THEN "skipped" ELSE kind, file_date |-> file_date]

\* variant: the marker is not looked at, every dated *.html goes to multi_day_files
ClassifyAllMulti(filename) ==
    IF ~EndsWith(filename, ".html") THEN Dated("skipped", NoDate)
    ELSE Dated("multi", EndDate(filename))

\* The body of the listdir loop for one file name
Classify(filename) ==
    IF ~EndsWith(filename, ".html") THEN Dated("skipped", NoDate)
    ELSE IF ~Contains(filename, "_to_") THEN Dated("single", SingleDayDate(filename))
    ELSE Dated("multi", EndDate(filename))

\* the days a sweep runs on: the day the directory's files were named on, and the
\* day after it
SweepDays == {Today0, MinusDays(Today0, -1)}

\* the output names of the model: those a directory starts with and those the
\* orchestrator can add to it
HtmlNames ==
    SweepNames(Today0) \cup OrchNames(Today0)
        \cup UNION {{SingleName(MinusDays(l, i)) : i \in 0..MaxOrchFiles}
                    \cup {MultiName(MinusDays(l, i), MinusDays(l, j)) :
                             i \in 0..MaxOrchFiles, j \in 0..MaxOrchFiles} :
                       l \in {Today0, StaleDay}}

\* Classify of the output names of the model, computed once
ClassifyTable == [f \in HtmlNames |-> Classify(f)]

ClassifyOf(f) == IF f \in DOMAIN ClassifyTable THEN ClassifyTable[f] ELSE Classify(f)

\* the listdir loop: every file name with what Classify makes of it
Collect(hd) == {<<ClassifyOf(f), f>> : f \in hd}

\* single_day_files or multi_day_files: the (file_date, filename) of one kind
FilesOfKind(collected, kind) ==
    {<<e[1].file_date, e[2]>> : e \in {x \in collected : x[1].kind = kind}}

\* variant: the comparison is strict, a file dated on the cutoff is outside
InWindowStrict(file_date, cutoff_date) == DateLt(cutoff_date, file_date)

\* file_date >= cutoff_date
InWindow(file_date, cutoff_date) == DateGe(file_date, cutoff_date)

\* cutoff_date = today - timedelta(days=keep_day), for each keep_day in turn
Cutoffs(td, keep_days) == [i \in 1..Len(keep_days) |-> MinusDays(td, keep_days[i])]

\* the multi-day files the keep_days loops add to files_to_keep
KeptMulti(multi, cutoffs) ==
    {e[2] : e \in {m \in multi : \E i \in 1..Len(cutoffs) : InWindow(m[1], cutoffs[i])}}

\* files_to_keep: every single-day file, and the multi-day files inside a window
FilesToKeep(single, multi, td, keep_days) ==
    {e[2] : e \in single} \cup KeptMulti(multi, Cutoffs(td, keep_days))

\* the files the deletion loop calls os.remove on
ToDelete(multi, keep) == {e[2] : e \in {m \in multi : m[2] \notin keep}}

\* a deletion loop that the first OSError ends
SweepResultAborted(multi, keep, victims, remove_fails, hd) ==
    [multi |-> multi, kept |-> keep, victims |-> victims,
     deleted |-> IF remove_fails = {} THEN victims ELSE {},
     html |-> IF remove_fails = {} THEN hd \ victims ELSE hd]

\* What one call did: multi_day_files, files_to_keep, the files it tried to remove,
\* those it removed, and the output directory afterwards.
SweepResult(multi, keep, victims, remove_fails, hd) ==
    [multi |-> multi, kept |-> keep, victims |-> victims,
     deleted |-> victims \ remove_fails, html |-> hd \ (victims \ remove_fails)]

\* the deletion loop; remove_fails: the files whose os.remove raises OSError
CleanupDecided(multi, keep, remove_fails, hd) ==
    SweepResult(multi, keep, ToDelete(multi, keep), remove_fails, hd)

\* from "files_to_keep = set()" on
CleanupCollected(single, multi, hd, td, keep_days, remove_fails) ==
    CleanupDecided(multi, FilesToKeep(single, multi, td, keep_days), remove_fails, hd)

\* from the listdir loop on
CleanupListed(collected, hd, td, keep_days, remove_fails) ==
    CleanupCollected(FilesOfKind(collected, "single"), FilesOfKind(collected, "multi"),
                     hd, td, keep_days, remove_fails)

\* One call of cleanup_old_html_files(html_dir, keep_days) on the day td
CleanupOldHtmlFiles(hd, td, keep_days, remove_fails) ==
    CleanupListed(Collect(hd), hd, td, keep_days, remove_fails)

\* the files a sweep of hd on the day td calls os.remove on
Victims(hd, td, keep_days) == CleanupOldHtmlFiles(hd, td, keep_days, {}).victims

\* keep_days: list = [10, 20, 30]
DefaultKeepDays == <<10, 20, 30>>

\* the *.html names of the model in descending order, computed once
HtmlNamesDesc == SortNamesDesc({f \in HtmlNames : EndsWith(f, ".html")})

\* html_files = [f for f in os.listdir(output_dir) if f.endswith('.html')], then
\* html_files.sort(reverse=True)
IndexOf(hd) ==
    IF hd \subseteq HtmlNames
    THEN SelectSeq(HtmlNamesDesc, LAMBDA f : f \in hd)
    ELSE SortNamesDesc({f \in hd : EndsWith(f, ".html")})

(***************************************************************************)
(* State                                                                   *)
(*   json_dir  the source store: file name -> [kind, papers]; kind is      *)
(*             "list" (a JSON array of papers), "invalid" (not JSON),      *)
(*             "object" (JSON, no array) or "items" (an array with an      *)
(*             element that is no mapping)                                 *)
(*   html_dir  the output store: the set of file names in it               *)
(*   reports   reports.json: the list of names last written to it          *)
(*   reports_empty  reports.json was opened for writing and nothing was    *)
(*             written to it: it is a file of length 0, no JSON array      *)
(*   today     date.today()                                                *)
(*   days      the days argument the deployment passes                     *)
(*   log       one entry per call made so far, oldest first                *)
(***************************************************************************)

\* values of the days argument: negative, zero, one, the cap, above the cap
DaysArgs == {-1, 0, 1, DaysCap, DaysCap + 2}

\* values of the keep_days argument: the default, none, an unordered list
KeepLists == {DefaultKeepDays, <<>>, <<20, 10>>}

NoGen == [selected |-> <<>>, name |-> "", loaded |-> <<>>, papers |-> <<>>,
          result |-> "none", html |-> {}]

NoSweep == [multi |-> {}, kept |-> {}, victims |-> {}, deleted |-> {}, html |-> {}]

\* a log entry: the call, its arguments and failures, the output store before and
\* after it, what the generation and the sweep in it computed, reports.json
\* before it, and the day of the call
Entry(op, n, cleanup, keep_days, remove_fails, before, gen, sweep, after) ==
    [op |-> op, days |-> n, cleanup |-> cleanup, keep_days |-> keep_days,
     remove_fails |-> remove_fails, before |-> before, gen |-> gen,
     sweep |-> sweep, after |-> after, index_fails |-> FALSE,
     reports_before |-> reports, today |-> today]

\* the score of the paper of the file f: none (-1), 0 or 1, by the file's day
PaperScore(f) ==
    IF Len(f) >= 10 /\ IsDigit(CharAt(f, 10)) THEN (DigitVal(CharAt(f, 10)) % 3) - 1 ELSE 0

Paper(f) == [id |-> f, score |-> PaperScore(f)]

\* the store with the files fs, those in corrupt having content of the kind given:
\* "invalid", "object", "items", or "list" (the empty array)
Store(fs, corrupt, kind) ==
    [f \in fs |->
        IF f \in corrupt
        THEN [kind |-> kind, papers |-> <<>>]
        ELSE [kind |-> "list", papers |-> <<Paper(f)>>]]

\* the stores of up to maxn daily files ending on last: as they are, with one
\* extra file, or with the newest or the oldest file (or both) unusable
Stores(last, maxn) ==
    UNION {
        {Store(DailyFiles(last, n), {}, "list")}
            \cup {Store(DailyFiles(last, n) \cup {e}, {}, "list") : e \in ExtraFiles(last)}
            \cup {Store(DailyFiles(last, n), c, k) :
                    c \in SUBSET {SourceName(last), SourceName(MinusDays(last, n - 1))},
                    k \in {"invalid", "list", "object", "items"}}
        : n \in 0..maxn}

\* the stores of up to maxn daily files ending on last, the newest one unusable or not
OrchStores(last, maxn) ==
    {Store(DailyFiles(last, n), c, k) :
        n \in 0..maxn, c \in SUBSET {SourceName(last)}, k \in {"invalid", "object"}}

\* --- actions -------------------------------------------------------------

Runs(op) == Cardinality({i \in 1..Len(log) : log[i].op = op})

\* the log entry of a direct sweep
SweepStep(keep_days, remove_fails, s) ==
    /\ html_dir' = s.html
    /\ log' = Append(log, Entry("cleanup", days, FALSE, keep_days, remove_fails,
                                html_dir, NoGen, s, s.html))

\* a call of cleanup_old_html_files(html_dir, keep_days), keep_days one of lists
SweepCall(lists) ==
    /\ \E keep_days \in lists :
       \E remove_fails \in {x \in SUBSET Victims(html_dir, today, keep_days) :
                               Cardinality(x) <= MaxFaults} :
          SweepStep(keep_days, remove_fails,
                    CleanupOldHtmlFiles(html_dir, today, keep_days, remove_fails))
    /\ UNCHANGED <<json_dir, reports, reports_empty, today, days>>

\* a caller runs cleanup_old_html_files(html_dir, keep_days) directly
SweepRun ==
    /\ Runs("cleanup") < MaxSweeps
    /\ SweepCall(KeepLists)

\* the keep_days of a scheduled sweep: any list for the first one, the list of the
\* sweep before it for the later ones
ScheduledLists ==
    IF Runs("cleanup") = 0 THEN KeepLists
    ELSE {log[CHOOSE i \in 1..Len(log) :
                 /\ log[i].op = "cleanup"
                 /\ \A j \in (i + 1)..Len(log) : log[j].op # "cleanup"].keep_days}

\* a scheduled job runs cleanup_old_html_files(html_dir, keep_days) again and
\* again, with the same keep_days
ScheduledSweepRun ==
    /\ Runs("cleanup") < MaxScheduled
    /\ SweepCall(ScheduledLists)

\* a day passes: date.today() is the next day
NextDay ==
    /\ ToOrdinal(today) - ToOrdinal(Today0) < MaxDaysOn
    /\ today' = MinusDays(today, -1)
    /\ UNCHANGED <<json_dir, html_dir, reports, reports_empty, days, log>>

GenerateStep(g) ==
    /\ html_dir' = g.html
    /\ log' = Append(log, Entry("generate", days, FALSE, <<>>, {}, html_dir, g,
                                NoSweep, g.html))

\* a caller runs generate_multi_day_html(json_dir, ..., output_dir, days)
GenerateRun ==
    /\ Runs("generate") < MaxRuns
    /\ \E write_fails \in BOOLEAN :
          GenerateStep(GenerateMultiDay(json_dir, html_dir, days, write_fails))
    /\ UNCHANGED <<json_dir, reports, reports_empty, today, days>>

\* the fetcher appends a record to every source file that holds a list
AddRecords ==
    /\ Runs("add_records") = 0
    /\ DOMAIN json_dir # {}
    /\ json_dir' = [f \in DOMAIN json_dir |->
                      IF json_dir[f].kind = "list"
                      THEN [json_dir[f] EXCEPT
                              !.papers = Append(@, [id |-> "new", score |-> 1])]
                      ELSE json_dir[f]]
    /\ log' = Append(log, Entry("add_records", days, FALSE, <<>>, {},
                                html_dir, NoGen, NoSweep, html_dir))
    /\ UNCHANGED <<html_dir, reports, reports_empty, today, days>>

\* generate_multi_day_html_with_cleanup(json_dir, ..., output_dir, days, cleanup):
\* g is what generate_multi_day_html did, s what cleanup_old_html_files does after
\* it; index_fails: opening reports.json for writing raises, which is caught and
\* logged.
GenerateWithCleanup(g, s, cleanup, remove_fails, index_fails) ==
    IF g.result = "raised"
    THEN \* the exception leaves this function too: no sweep, no index
         /\ UNCHANGED <<html_dir, reports, reports_empty>>
         /\ log' = Append(log, Entry("orchestrate", days, cleanup, <<>>, {},
                                     html_dir, g, NoSweep, html_dir))
    ELSE IF cleanup
    THEN /\ html_dir' = s.html
         /\ reports' = IF index_fails THEN reports ELSE IndexOf(s.html)
         /\ reports_empty' = IF index_fails THEN reports_empty ELSE FALSE
         /\ log' = Append(log, [Entry("orchestrate", days, TRUE, DefaultKeepDays,
                                      remove_fails, html_dir, g, s, s.html)
                                    EXCEPT !.index_fails = index_fails])
    ELSE /\ html_dir' = g.html
         /\ UNCHANGED <<reports, reports_empty>>
         /\ log' = Append(log, Entry("orchestrate", days, FALSE, <<>>, {},
                                     html_dir, g, NoSweep, g.html))

\* the failures of one orchestrator call, at most MaxFaults of them
OrchestratorStep(g, cleanup, write_fails, index_fails) ==
    \E remove_fails \in SUBSET Victims(g.html, today, DefaultKeepDays) :
        /\ Cardinality(remove_fails) + (IF write_fails THEN 1 ELSE 0)
              + (IF index_fails THEN 1 ELSE 0) <= MaxFaults
        /\ cleanup \/ (remove_fails = {} /\ ~index_fails)
        /\ GenerateWithCleanup(g, CleanupOldHtmlFiles(g.html, today, DefaultKeepDays,
                                                      remove_fails),
                               cleanup, remove_fails, index_fails)

OrchestratorRun ==
    /\ Runs("orchestrate") < MaxRuns
    /\ \E cleanup \in BOOLEAN, write_fails \in BOOLEAN, index_fails \in BOOLEAN :
          OrchestratorStep(GenerateMultiDay(json_dir, html_dir, days, write_fails),
                           cleanup, write_fails, index_fails)
    /\ UNCHANGED <<json_dir, today, days>>

\* cleanup_html.main() when daily_html exists: the sweep s with the default
\* windows, then reports.json is opened for writing, which empties it, and
\* json.dump raises NameError (the script never imports json), which is caught
\* and logged; main returns and the process exits 0.  index_fails: the open
\* itself raises, and the file is left as it was.
MainSwept(s, remove_fails, index_fails) ==
    /\ html_dir' = s.html
    /\ reports' = IF index_fails THEN reports ELSE <<>>
    /\ reports_empty' = IF index_fails THEN reports_empty ELSE TRUE
    /\ log' = Append(log, [exit_code |-> 0, dir_exists |-> TRUE]
                             @@ [Entry("main", days, TRUE, DefaultKeepDays,
                                       remove_fails, html_dir, NoGen, s, s.html)
                                    EXCEPT !.index_fails = index_fails])

\* cleanup_html.main() when daily_html does not exist: sys.exit(1)
MainAbsent ==
    /\ html_dir = {}
    /\ log' = Append(log, [exit_code |-> 1, dir_exists |-> FALSE]
                             @@ Entry("main", days, TRUE, DefaultKeepDays, {}, {},
                                      NoGen, NoSweep, {}))
    /\ UNCHANGED <<html_dir, reports, reports_empty>>

\* the maintenance script is run
MainRun ==
    /\ Runs("main") < MaxSweeps
    /\ \/ MainAbsent
       \/ \E index_fails \in BOOLEAN :
          \E remove_fails \in SUBSET Victims(html_dir, today, DefaultKeepDays) :
             /\ Cardinality(remove_fails) + (IF index_fails THEN 1 ELSE 0) <= MaxFaults
             /\ MainSwept(CleanupOldHtmlFiles(html_dir, today, DefaultKeepDays,
                                              remove_fails),
                          remove_fails, index_fails)
    /\ UNCHANGED <<json_dir, today, days>>

\* --- specifications ------------------------------------------------------

\* the orchestrator, run repeatedly over a source store that may grow
Init ==
    /\ today = Today0
    /\ json_dir \in OrchStores(today, MaxOrchFiles)
                       \cup OrchStores(StaleDay, MaxOrchFiles)
    /\ html_dir \in SUBSET OrchNames(today)
    /\ reports \in {<<>>, <<"stale.html">>}
    /\ reports_empty = FALSE
    /\ days = DaysCap
    /\ log = <<>>

Next == OrchestratorRun \/ AddRecords

Spec == Init /\ [][Next]_vars

\* the sweep alone, as test_cleanup.py and test_cleanup_simple.py call it
InitSweep ==
    /\ today \in SweepDays
    /\ json_dir = <<>>
    /\ html_dir \in SUBSET SweepNames(Today0)
    /\ reports = <<>>
    /\ reports_empty = FALSE
    /\ days = DaysCap
    /\ log = <<>>

NextSweep == SweepRun

SpecSweep == InitSweep /\ [][NextSweep]_vars

\* the generation alone, as test_multi_day.py calls it
InitGen ==
    /\ today = Today0
    /\ json_dir \in Stores(StaleDay, MaxFiles)
    /\ html_dir = {}
    /\ reports = <<>>
    /\ reports_empty = FALSE
    /\ days \in DaysArgs
    /\ log = <<>>

NextGen == GenerateRun \/ AddRecords

SpecGen == InitGen /\ [][NextGen]_vars

\* the maintenance script, run on an output store with an index of any content
InitMain ==
    /\ today \in SweepDays
    /\ json_dir = <<>>
    /\ html_dir \in SUBSET SweepNames(Today0)
    /\ reports \in {<<>>, <<"stale.html">>}
    /\ reports_empty = FALSE
    /\ days = DaysCap
    /\ log = <<>>

\* the sweep as a scheduled job, over several days
InitScheduled ==
    /\ today = Today0
    /\ json_dir = <<>>
    /\ html_dir \in SUBSET ScheduledNames(Today0)
    /\ reports = <<>>
    /\ reports_empty = FALSE
    /\ days = DaysCap
    /\ log = <<>>

NextScheduled == ScheduledSweepRun \/ NextDay

SpecScheduled == InitScheduled /\ [][NextScheduled]_vars

NextMain == MainRun

SpecMain == InitMain /\ [][NextMain]_vars

(***************************************************************************)
(* Properties of the sweep (SpecSweep)                                     *)
(***************************************************************************)

\* the direct sweeps made so far
Sweeps == {i \in 1..Len(log) : log[i].op = "cleanup"}

HasMarker(f) == Contains(f, "_to_")

\* C1: a sweep never deletes a file whose name does not contain the multi-day
\* marker '_to_': every such file present before the sweep is present after it,
\* whatever the store holds, whatever the keep windows and the day are.
SingleDayExemption ==
    \A i \in Sweeps :
        \A f \in log[i].before : ~HasMarker(f) => f \in log[i].after

\* C1 witness: a sweep deleted a multi-day document and left a dated single-day
\* document 50 days old in place.
SingleDayExemptionWitness ==
    \E i \in Sweeps :
        /\ log[i].sweep.deleted # {}
        /\ SingleName(MinusDays(Today0, 50)) \in log[i].before
        /\ SingleName(MinusDays(Today0, 50)) \in log[i].after

\* max(W) of a non-empty list of day counts
MaxOf(keep_days) ==
    CHOOSE d \in SeqToSet(keep_days) : \A e \in SeqToSet(keep_days) : e <= d

\* the age in days of the date e on the day of the sweep
Age(e) == ToOrdinal(today) - ToOrdinal(e)

\* the ten-day digests of the model, each with the date it ends on
TenDayDigests ==
    {<<MinusDays(Today0, k), TenDays(Today0, k)>> : k \in {0, 10, 20, 30, 31}}

DateAt(f, i) ==
    IF /\ Len(f) >= i + 9
       /\ CharAt(f, i + 4) = "_"
       /\ CharAt(f, i + 7) = "_"
       /\ AllDigits(SubSeq(f, i, i + 3) \o SubSeq(f, i + 5, i + 6) \o SubSeq(f, i + 8, i + 9))
    THEN MakeDate(ParseInt(SubSeq(f, i, i + 3)), ParseInt(SubSeq(f, i + 5, i + 6)),
                  ParseInt(SubSeq(f, i + 8, i + 9)))
    ELSE NoDate

\* f has the shape <YYYY_MM_DD>.html
SingleShape(f) == Len(f) = 15 /\ SubSeq(f, 11, 15) = ".html" /\ DateAt(f, 1) # NoDate

\* f has the shape <YYYY_MM_DD>_to_<YYYY_MM_DD>.html
MultiShape(f) ==
    /\ Len(f) = 29
    /\ SubSeq(f, 11, 14) = "_to_"
    /\ SubSeq(f, 25, 29) = ".html"
    /\ DateAt(f, 1) # NoDate
    /\ DateAt(f, 15) # NoDate

\* C7: a sweep never deletes a file whose name matches neither date shape: a name
\* in which the segment before or the segment after '_to_' is no valid date is
\* left in place, whatever the day and the keep windows are.
MalformedNamesLeftInPlace ==
    \A i \in Sweeps :
        \A f \in log[i].before :
            ~SingleShape(f) /\ ~MultiShape(f) => f \in log[i].after

\* the later of two dates
LaterDate(a, b) == IF DateLt(a, b) THEN b ELSE a

\* C8: for every multi-day document in the store, the retention date the sweep
\* compares with the cutoffs is the later of the two dates in its name, also when
\* the first date is the later one.
RetentionFromLaterDate ==
    \A i \in Sweeps :
        \A f \in log[i].before :
            MultiShape(f) =>
                <<LaterDate(DateAt(f, 1), DateAt(f, 15)), f>> \in log[i].sweep.multi

\* the files of a set whose names contain the marker
Marked(fs) == {f \in fs : HasMarker(f)}

\* C9: sweeping with the windows 10, 20, 30 a store that holds single-day documents
\* and four multi-day documents whose end dates are today, today-10, today-20 and
\* today-30 keeps every single-day document and leaves fewer multi-day documents
\* than there were.
FourDigestsSwept ==
    \A i \in Sweeps :
        /\ log[i].keep_days = DefaultKeepDays
        /\ Marked(log[i].before) = {TenDays(today, k) : k \in {0, 10, 20, 30}}
        /\ \E f \in log[i].before : SingleShape(f)
        => /\ {f \in log[i].before : SingleShape(f)} \subseteq log[i].after
           /\ Cardinality(Marked(log[i].after)) < Cardinality(Marked(log[i].before))

(***************************************************************************)
(* Properties of the generation (SpecGen)                                  *)
(***************************************************************************)

\* the direct calls of generate_multi_day_html made so far
Gens == {i \in 1..Len(log) : log[i].op = "generate"}

\* j is the call that follows the call i
NextGenOf(i, j) == i < j /\ \A k \in Gens : ~(i < k /\ k < j)

\* C3, as stated: two runs in a row over the same source files and the same output
\* store produce exactly one document; the second run finds the computed name
\* present and writes nothing, also when records were added in between.  Read with
\* a first run that selected a source and no write that failed.
TwoRunsOneDocument ==
    \A i \in Gens, j \in Gens :
        /\ NextGenOf(i, j)
        /\ log[i].gen.selected # <<>>
        /\ log[i].gen.result # "write_failed"
        /\ log[j].gen.result # "write_failed"
        => /\ log[j].gen.result = "exists"
           /\ log[j].after = log[j].before
           /\ Cardinality(log[j].after) = 1

\* C3, amended: once a run ends with its computed output name in the output store
\* (it wrote the document or found it there), every later run over the same source
\* files computes the same name, finds it present and writes nothing, also when
\* records were added to the source files in between; over all the runs at most
\* one document is written.
IdempotentOnceProduced ==
    /\ \A i \in Gens, j \in Gens :
          i < j /\ log[i].gen.name \in log[i].after
          => /\ log[j].gen.result = "exists"
             /\ log[j].gen.name = log[i].gen.name
             /\ log[j].after = log[j].before
    /\ Cardinality({i \in Gens : log[i].gen.result = "written"}) <= 1
    /\ Cardinality(html_dir) <= 1

\* C3 witness: a run wrote the document, records were added to the source files,
\* and the next run found the document and wrote nothing.
IdempotentOnceProducedWitness ==
    \E i \in Gens, j \in Gens :
        /\ i < j
        /\ log[i].gen.result = "written"
        /\ \E k \in (i + 1)..(j - 1) : log[k].op = "add_records"
        /\ log[j].gen.result = "exists"
        /\ log[j].after = {log[i].gen.name}

\* the calls that rendered a document (whether or not the write went through)
Rendered == {i \in Gens : log[i].gen.result \in {"written", "write_failed"}}

\* covered_dates: the dates of the sources whose records were loaded, deduplicated
CoveredDates(g) == {e[1] : e \in SeqToSet(g.loaded)}

\* the earliest and the latest date of a non-empty set of dates
Earliest(ds) == CHOOSE d \in ds : \A e \in ds : ~DateLt(e, d)

Latest(ds) == CHOOSE d \in ds : \A e \in ds : ~DateLt(d, e)

\* C4: for a store with at most 10 valid daily sources the planned output name
\* has the single-day shape (no marker) iff the deduplicated set of covered dates
\* has exactly one element, also when several files map to one date and when only
\* one selected source loads.  Read over the runs in which every selected source
\* loaded, so that the covered dates are the dates of the selected sources.
SingleShapeIffOneCoveredDate ==
    \A i \in Rendered :
        /\ Cardinality(JsonEntries(json_dir)) <= DaysCap
        /\ log[i].gen.loaded = log[i].gen.selected
        => (~HasMarker(log[i].gen.name)
               <=> Cardinality(CoveredDates(log[i].gen)) = 1)

\* C5: a selected source whose content fails to parse is excluded from the covered
\* dates: the start and end dates in the output name are the minimum and maximum
\* over the selected sources that were loaded, and the failing source is not
\* replaced by an older one.
NameFromLoadedSources ==
    \A i \in Rendered :
        /\ SeqToSet(log[i].gen.loaded) \subseteq SeqToSet(log[i].gen.selected)
        /\ \/ log[i].gen.name = MultiName(Earliest(CoveredDates(log[i].gen)),
                                          Latest(CoveredDates(log[i].gen)))
           \/ /\ Cardinality(CoveredDates(log[i].gen)) = 1
              /\ log[i].gen.name = SingleName(Earliest(CoveredDates(log[i].gen)))

\* C6: for every value of the days argument (above 10, zero, negative) and every
\* store, at most 10 sources are selected and, for days >= 0, at most days of
\* them; the selected ones are the most recent valid-named sources; with 12
\* consecutive daily files and days = 10 the name runs from the 3rd to the 12th.
AtMostTenMostRecent ==
    \A i \in Gens :
        /\ Len(log[i].gen.selected) <= DaysCap
        /\ log[i].days >= 0 => Len(log[i].gen.selected) <= log[i].days
        /\ SeqToSet(log[i].gen.selected) \subseteq JsonEntries(json_dir)
        /\ \A e \in JsonEntries(json_dir) \ SeqToSet(log[i].gen.selected) :
              \A x \in SeqToSet(log[i].gen.selected) : EntryLt(e, x)
        /\ (log[i].days = DaysCap /\ DOMAIN json_dir = DailyFiles(StaleDay, 12))
              => log[i].gen.name = MultiName(MinusDays(StaleDay, 9), StaleDay)

(***************************************************************************)
(* Properties of the orchestrator (Spec)                                   *)
(***************************************************************************)

\* r lists exactly the *.html names of hd, each once, in descending order
IsIndexOf(r, hd) ==
    /\ SeqToSet(r) = {f \in hd : EndsWith(f, ".html")}
    /\ \A i \in 1..(Len(r) - 1) : StrLt(r[i + 1], r[i])

\* C10: at the end of every orchestrator run, cleanup on or off, that changed the
\* output store by writing or deleting a document, reports.json is the list of the
\* documents in the output store in descending order, whatever it held before.
\* Read with no failure of the write of reports.json itself.
IndexMirrorsStore ==
    Len(log) > 0 /\ Last(log).op = "orchestrate"
        /\ Last(log).after # Last(log).before /\ ~Last(log).index_fails
    => IsIndexOf(reports, html_dir)
(***************************************************************************)
(* Properties of the merge and the sort (SpecGen)                          *)
(***************************************************************************)

\* the priority of a record: its score, 0 when it has none
Priority(p) == IF p.score = -1 THEN 0 ELSE p.score

\* the records of the loaded sources as the store holds them, each with the place
\* it is read at (the position of its file among the loaded files, then its
\* position in the file) and the date of its file
SourceRecords(g) ==
    UNION {{[at |-> <<n, k>>,
             rec |-> [id |-> json_dir[g.loaded[n][2]].papers[k].id,
                      score |-> json_dir[g.loaded[n][2]].papers[k].score,
                      source_date |-> IsoFormat(g.loaded[n][1])]] :
               k \in 1..Len(json_dir[g.loaded[n][2]].papers)} :
           n \in 1..Len(g.loaded)}

\* the place a is read before the place b
ReadBefore(a, b) == a[1] < b[1] \/ (a[1] = b[1] /\ a[2] < b[2])

\* how often the record r occurs in the list ps
Occurrences(ps, r) == Cardinality({i \in 1..Len(ps) : ps[i] = r})

\* the place of the record r in the list ps, for a record that occurs once
PlaceOf(ps, r) == CHOOSE i \in 1..Len(ps) : ps[i] = r

\* ps holds the records src, none lost and none duplicated, in descending order of
\* priority, records of equal priority in the order they were read
MergedAndSorted(ps, src) ==
    /\ Len(ps) = Cardinality(src)
    /\ \A x \in src :
          Occurrences(ps, x.rec) = Cardinality({y \in src : y.rec = x.rec})
    /\ \A i \in 1..(Len(ps) - 1) : Priority(ps[i]) >= Priority(ps[i + 1])
    /\ \A x \in src, y \in src :
          /\ ReadBefore(x.at, y.at)
          /\ Priority(x.rec) = Priority(y.rec)
          /\ Occurrences(ps, x.rec) = 1
          /\ Occurrences(ps, y.rec) = 1
          => PlaceOf(ps, x.rec) < PlaceOf(ps, y.rec)

\* C11: the records handed to the renderer are the records of all loaded sources,
\* combined and then ordered by priority score descending across the sources, a
\* record with no score counting as 0; the sort loses and duplicates no record, and
\* records of equal score are contiguous (they keep the order they were read in).
RenderedRecordsSorted ==
    Len(log) > 0 /\ Last(log).op = "generate"
        /\ Last(log).gen.result \in {"written", "write_failed"}
    => MergedAndSorted(Last(log).gen.papers, SourceRecords(Last(log).gen))

\* C11 witness: a run rendered the records of three or more sources, one of them
\* without a score and read before a record of score 0, and a record read later
\* than another has the higher score, so the sort moved it forward.
RenderedRecordsSortedWitness ==
    /\ Len(log) > 0 /\ Last(log).op = "generate"
    /\ Last(log).gen.result = "written"
    /\ Len(Last(log).gen.loaded) >= 3
    /\ \E x \in SourceRecords(Last(log).gen), y \in SourceRecords(Last(log).gen) :
          /\ ReadBefore(x.at, y.at)
          /\ x.rec.score = -1
          /\ y.rec.score = 0
    /\ \E x \in SourceRecords(Last(log).gen), y \in SourceRecords(Last(log).gen) :
          /\ ReadBefore(x.at, y.at)
          /\ x.at[1] < y.at[1]
          /\ Priority(x.rec) < Priority(y.rec)
          /\ PlaceOf(Last(log).gen.papers, y.rec) < PlaceOf(Last(log).gen.papers, x.rec)
(***************************************************************************)
(* Properties of the maintenance script (SpecMain)                         *)
(***************************************************************************)

\* C12: after cleanup_html.main ran on an existing output store, reports.json
\* holds the JSON array of the names that remain in the store after the sweep with
\* the windows 10, 20, 30, in descending order; the process exits non-zero only
\* when the output store is absent.  Read with an open of reports.json that does
\* not fail.
MainRewritesIndex ==
    Len(log) > 0 /\ Last(log).op = "main"
    => /\ (Last(log).exit_code # 0) => ~Last(log).dir_exists
       /\ (Last(log).dir_exists /\ ~Last(log).index_fails)
             => /\ ~reports_empty
                /\ IsIndexOf(reports, html_dir)
                /\ html_dir = (Last(log).before \ Last(log).sweep.victims)
                                  \cup Last(log).remove_fails
(***************************************************************************)
(* Properties of the load loop (SpecGen)                                   *)
(***************************************************************************)

\* the content of the file of the entry e is an array of mappings
WellFormed(e) == json_dir[e[2]].kind = "list"

\* C13: whatever a selected source file holds (invalid JSON, JSON that is no list,
\* a list with elements that are no mappings), the load loop skips only that
\* source and loads the others, and no exception reaches the caller of
\* generate_multi_day_html.
LoadSkipsOnlyBadSources ==
    \A i \in Gens :
        log[i].gen.result \notin {"no_files", "exists"}
        => /\ log[i].gen.result # "raised"
           /\ log[i].gen.loaded = SelectSeq(log[i].gen.selected, WellFormed)

\* ---------------------------------------------------------------------------
\* Properties of a failing deletion (SpecScheduled)
\* ---------------------------------------------------------------------------

\* the multi-day documents of sweep i that no window of it retains
NonRetained(i) ==
    {m[2] : m \in {x \in log[i].sweep.multi :
                      \A k \in 1..Len(log[i].keep_days) :
                         ToOrdinal(log[i].today) - ToOrdinal(x[1]) > log[i].keep_days[k]}}

\* the sweeps after sweep i with no sweep in between
NextSweepOf(i) ==
    {j \in Sweeps : j > i /\ \A k \in Sweeps : ~(i < k /\ k < j)}

\* C14: when the removal of a non-retained multi-day document f fails in a sweep,
\* every other non-retained multi-day document of that sweep is removed, f is
\* still in the store after the sweep, the store after the sweep is the store
\* before it less the documents removed (nothing is put back), and the next
\* sweep, on the same or a later day, selects f for deletion again.
FailedDeletionIsRetried ==
    \A i \in Sweeps :
        \A f \in log[i].remove_fails :
            /\ f \in NonRetained(i)
            /\ f \in log[i].after
            /\ \A g \in NonRetained(i) \ log[i].remove_fails : g \notin log[i].after
            /\ log[i].after = log[i].before \ (NonRetained(i) \ log[i].remove_fails)
            /\ \A j \in NextSweepOf(i) :
                  /\ ToOrdinal(log[j].today) >= ToOrdinal(log[i].today)
                  /\ f \in NonRetained(j)
                  /\ f \in log[j].sweep.victims

\* a sweep removes one document and fails on another, and the next sweep, a day
\* later, removes the document the first one failed on
FailedDeletionIsRetriedWitness ==
    /\ Len(log) = 2
    /\ log[1].op = "cleanup" /\ log[2].op = "cleanup"
    /\ Cardinality(log[1].remove_fails) = 1
    /\ log[1].sweep.deleted # {}
    /\ log[2].today # log[1].today
    /\ log[1].remove_fails \subseteq log[2].sweep.deleted

\* ---------------------------------------------------------------------------
\* Properties of the orchestrator's sweep on its own digest (Spec)
\* ---------------------------------------------------------------------------

\* the orchestrator runs with cleanup enabled whose generation wrote a document
\* (the sweep in such a run starts from the store the generation left)
WroteThenSwept ==
    {i \in 1..Len(log) : /\ log[i].op = "orchestrate"
                          /\ log[i].cleanup
                          /\ log[i].gen.result = "written"}

\* C15: the document the generation of an orchestrator run with cleanup enabled
\* wrote is in the output store when the run ends, for every source store and
\* every today, and the orchestrator run right after it, over the same source
\* store, finds that document and skips generation.
FreshDigestSurvivesSweep ==
    \A i \in WroteThenSwept :
        /\ log[i].gen.name \in log[i].after
        /\ (i + 1 <= Len(log) /\ log[i + 1].op = "orchestrate")
              => log[i + 1].gen.result = "exists"

=============================================================================
